---- MODULE Spec2Model ----
(***************************************************************************)
(* A model of epub.py: the validation run of an EPUB archive.              *)
(*   verify_mimetype -> parse_container -> parse_package                   *)
(*   (identity, metadata, manifest, id lookup, spine, guide).              *)
(* The archive library and the XML library are modelled at the interface   *)
(* the code uses: namelist()/getinfo()/read() and raw file reads for the   *)
(* archive, find()/findall()/get() on an element tree for the documents.   *)
(* Every raise of the code is a ValueError; the model names each one by    *)
(* its raise site.  logging.info calls have no effect on the run and are   *)
(* not modelled; logging.warning calls are recorded in `warnings`.         *)
(***************************************************************************)
EXTENDS Integers, Sequences, FiniteSets, TLC

VARIABLES
    archive,            \* the ZipFile: entry names, the mimetype entry's info and bytes, raw file bytes
    container,          \* the archive entry META-INF/container.xml
    package,            \* the archive entry holding the package document
    pc,                 \* the statement of __main__ / parse_package about to run
    started,            \* the stages started so far, in order
    failure,            \* the exception that ended the run, if any
    warnings,           \* the logging.warning records emitted so far
    mimetype_checks,    \* the numbers of the checks verify_mimetype evaluated
    package_content_path, \* __main__: the value parse_container returned
    identity,           \* parse_package: (version, unique_identifier)
    metadata,           \* parse_package: the value parse_metadata returned
    manifest,           \* parse_package: the value parse_manifest returned
    manifest_items,     \* parse_package: the id -> item dict
    spine,              \* parse_package: the value parse_spine returned
    guide,              \* parse_package: the value parse_guide returned
    ret                 \* the value parse_package returned

vars == <<archive, container, package, pc, started, failure, warnings,
          mimetype_checks, package_content_path, identity, metadata, manifest, manifest_items,
          spine, guide, ret>>

-----------------------------------------------------------------------------
(* Python values *)

\* Element.get(name) of an attribute that is not there
None == "<None>"

\* Python truthiness of an attribute value: neither None nor the empty string
Truthy(v) == v # None /\ v # ""

\* the result of a function that returned normally / that raised
OK == "ok"
Return(v) == [err |-> OK, arg |-> None, at |-> 0, val |-> v]
Raise(e, a, i) == [err |-> e, arg |-> a, at |-> i, val |-> None]

-----------------------------------------------------------------------------
(* Program constants *)

MIME_TYPES ==
    { "image/gif", "image/jpeg", "image/png", "image/svg+xml",
      "application/xhtml+xml", "application/x-dtbook+xml", "text/css",
      "application/xml", "application/x-dtbncx+xml",
      "application/vnd.ms-opentype" }

\* SUGGESTED_MIME_TYPES.get(mt): None for a missing key, and for the key whose
\* value is None
SUGGESTED_MIME_TYPES(mt) ==
    IF mt = "application/x-font-ttf" THEN "application/vnd.ms-opentype" ELSE None

ZIP_STORED == 0

\* the media types parse_spine accepts as OPS content documents
CONTENT_DOCUMENT_TYPES ==
    { "application/xhtml+xml", "application/x-dtbook+xml", "text/x-oeb1-document" }

PACKAGE_MEDIA_TYPE == "application/oebps-package+xml"

-----------------------------------------------------------------------------
(* verify_mimetype *)

\* bytes.decode('ascii') succeeds iff every byte is below 128
DecodesAscii(bytes) == \A i \in 1..Len(bytes) : bytes[i] < 128

\* f.seek(offset); f.read(n) at the three offsets the code reads
ReadAt(epub, offset) ==
    CASE offset = 0  -> epub.raw0
      [] offset = 30 -> epub.raw30
      [] offset = 38 -> epub.raw38

\* flag_bits & 0x1 (mutant: any flag bit counts)
EncryptedAnyFlag(flag_bits) == flag_bits # 0

Encrypted(flag_bits) == flag_bits % 2 = 1

\* the result of verify_mimetype with the numbers of the checks it evaluated
Verdict(e, n) == [err |-> e, evaluated |-> [i \in 1..n |-> i]]

verify_mimetype(epub) ==
    IF epub.namelist = <<>> \/ epub.namelist[1] # "mimetype"
    THEN Verdict("mimetype_not_first", 1)
    ELSE IF epub.compress_type # ZIP_STORED
    THEN Verdict("mimetype_compressed", 2)
    ELSE IF epub.extra # <<>>
    THEN Verdict("mimetype_extra_fields", 3)
    ELSE IF Encrypted(epub.flag_bits)
    THEN Verdict("mimetype_encrypted", 4)
    ELSE IF ~DecodesAscii(epub.content)
    THEN Verdict("mimetype_not_ascii", 5)
    ELSE IF ReadAt(epub, 0) # "PK"
    THEN Verdict("bad_magic_number", 6)
    ELSE IF ReadAt(epub, 30) # "mimetype"
    THEN Verdict("mimetype_name_misplaced", 6)
    ELSE IF ReadAt(epub, 38) # "application/epub+zip"
    THEN Verdict("mimetype_content_misplaced", 6)
    ELSE Verdict(OK, 6)

-----------------------------------------------------------------------------
(* parse_container *)

\* the test a rootfile must pass to be returned (mutant: the media-type alone)
RootfileChosenByTypeOnly(rootfile) ==
    rootfile.media_type = PACKAGE_MEDIA_TYPE

RootfileChosen(rootfile) ==
    rootfile.media_type = PACKAGE_MEDIA_TYPE /\ Truthy(rootfile.full_path)

RECURSIVE rootfile_loop(_, _)
rootfile_loop(rootfiles, i) ==
    IF i > Len(rootfiles)
    THEN Raise("no_package_rootfile", None, 0)
    ELSE IF RootfileChosen(rootfiles[i])
    THEN Return(rootfiles[i].full_path)
    ELSE rootfile_loop(rootfiles, i + 1)

\* c.rootfiles: the rootfiles children of the root, each the sequence of its
\* rootfile children; root.find takes the first
parse_container(c) ==
    IF c.status = "missing"
    THEN Raise("container_missing", None, 0)
    ELSE IF c.status = "undecodable"
    THEN Raise("container_not_utf8", None, 0)
    ELSE IF ~c.wellformed
    THEN Raise("container_parse_error", None, 0)
    ELSE IF c.rootfiles = <<>>
    THEN Raise("no_rootfiles", None, 0)
    ELSE rootfile_loop(c.rootfiles[1], 1)

-----------------------------------------------------------------------------
(* parse_package_identity *)

\* opf: the package document text: whether ET.fromstring accepts it, and its root
parse_package_identity(opf) ==
    IF ~opf.wellformed
    THEN Raise("opf_parse_error", None, 0)
    ELSE IF opf.root.tag # "{http://www.idpf.org/2007/opf}package"
    THEN Raise("root_not_package", None, 0)
    ELSE IF ~Truthy(opf.root.version)
    THEN Raise("missing_version", None, 0)
    ELSE IF ~Truthy(opf.root.unique_identifier)
    THEN Raise("missing_unique_identifier", None, 0)
    ELSE Return([version |-> opf.root.version,
                 unique_identifier |-> opf.root.unique_identifier])

-----------------------------------------------------------------------------
(* parse_metadata *)

\* the two values parse_metadata returns instead of a dict: a str
MetadataStr(text) ==
    [type |-> "str", text |-> text, title |-> <<>>, identifier |-> <<>>]

\* identifier_ids (mutant: only the first dc:identifier is looked at)
IdentifierIdsFirstOnly(identifiers) ==
    { identifiers[i].id : i \in { j \in 1..Len(identifiers) :
                                    j = 1 /\ Truthy(identifiers[j].id) } }

IdentifierIds(identifiers) ==
    { identifiers[i].id : i \in { j \in 1..Len(identifiers) :
                                    Truthy(identifiers[j].id) } }

\* of the ten categories of metadata_info the model keeps title and identifier;
\* the others are built by the same comprehensions and are never read
parse_metadata(opf, unique_identifier) ==
    IF ~opf.wellformed
    THEN Return(MetadataStr("Error: Failed to parse OPF metadata section"))
    ELSE IF opf.root.metadata = <<>>
    THEN Return(MetadataStr("Error: Missing <metadata> section in OPF file"))
    ELSE LET md == opf.root.metadata[1]
             metadata_info == [type |-> "dict", text |-> None,
                               title |-> md.title, identifier |-> md.identifier]
         IN  IF unique_identifier \notin IdentifierIds(metadata_info.identifier)
             THEN Raise("unique_identifier_no_match", unique_identifier, 0)
             ELSE Return(metadata_info)

-----------------------------------------------------------------------------
(* parse_manifest *)

\* href already in hrefs (mutant: the test is missing)
HrefNeverSeen(href, hrefs) == FALSE

HrefSeen(href, hrefs) == href \in hrefs

\* the warning, if any, for an item's media-type (mutant: the types the spine
\* accepts are taken for the recognized ones)
MediaTypeWarningBySpineTypes(item_data, known_mime_types) ==
    IF item_data.media_type \notin CONTENT_DOCUMENT_TYPES
    THEN IF Truthy(SUGGESTED_MIME_TYPES(item_data.media_type))
         THEN << [kind |-> "deprecated", id |-> item_data.id] >>
         ELSE << [kind |-> "unknown", id |-> item_data.id] >>
    ELSE << >>

MediaTypeWarning(item_data, known_mime_types) ==
    IF item_data.media_type \notin known_mime_types
    THEN IF Truthy(SUGGESTED_MIME_TYPES(item_data.media_type))
         THEN << [kind |-> "deprecated", id |-> item_data.id] >>
         ELSE << [kind |-> "unknown", id |-> item_data.id] >>
    ELSE << >>

\* the result of parse_manifest and the warnings it logged on the way
Logged(r, w) == [res |-> r, warnings |-> w]

\* of the seven attributes of item_data the model keeps id, href, media-type
\* and fallback; the other three are copied and never read
RECURSIVE item_loop(_, _, _, _, _, _)
item_loop(items, i, known_mime_types, hrefs, manifest_info, logged) ==
    IF i > Len(items)
    THEN Logged(Return(manifest_info), logged)
    ELSE LET item_data == items[i] IN
         IF ~Truthy(item_data.id)
         THEN Logged(Raise("item_missing_id", None, i), logged)
         ELSE IF ~Truthy(item_data.href)
         THEN Logged(Raise("item_missing_href", None, i), logged)
         ELSE IF ~Truthy(item_data.media_type)
         THEN Logged(Raise("item_missing_media_type", None, i), logged)
         ELSE IF HrefSeen(item_data.href, hrefs)
         THEN Logged(Raise("duplicate_href", item_data.href, i), logged)
         ELSE item_loop(items, i + 1, known_mime_types,
                        hrefs \cup {item_data.href},
                        Append(manifest_info, item_data),
                        logged \o MediaTypeWarning(item_data, known_mime_types))

parse_manifest(opf, known_mime_types) ==
    IF ~opf.wellformed
    THEN Logged(Raise("manifest_parse_error", None, 0), << >>)
    ELSE IF opf.root.manifest = <<>>
    THEN Logged(Raise("missing_manifest", None, 0), << >>)
    ELSE item_loop(opf.root.manifest[1], 1, known_mime_types, {}, << >>, << >>)

-----------------------------------------------------------------------------
(* manifest_items = {item['id']: item for item in manifest} *)

\* d[k] = v (mutant: a key already there keeps its value)
DictSetKeepFirst(d, k, v) ==
    [x \in DOMAIN d \cup {k} |-> IF x \in DOMAIN d THEN d[x] ELSE v]

DictSet(d, k, v) ==
    [x \in DOMAIN d \cup {k} |-> IF x = k THEN v ELSE d[x]]

RECURSIVE dict_by_id(_, _, _)
dict_by_id(items, i, d) ==
    IF i > Len(items) THEN d
    ELSE dict_by_id(items, i + 1, DictSet(d, items[i].id, items[i]))

-----------------------------------------------------------------------------
(* parse_spine *)

\* itemref.get('linear', 'yes') (mutant: no default)
LinearNoDefault(itemref) == itemref.linear

Linear(itemref) ==
    IF itemref.linear = None THEN "yes" ELSE itemref.linear

\* not (not media_type or media_type not in {...})
IsContentDocument(media_type) ==
    Truthy(media_type) /\ media_type \in CONTENT_DOCUMENT_TYPES

\* the fallback test (mutant: the fallback's own fallback is followed too)
FallbackAcceptedTwoHops(manifest_item, items) ==
    LET fallback == manifest_item.fallback IN
    /\ Truthy(fallback)
    /\ fallback \in DOMAIN items
    /\ \/ items[fallback].media_type \in CONTENT_DOCUMENT_TYPES
       \/ /\ Truthy(items[fallback].fallback)
          /\ items[fallback].fallback \in DOMAIN items
          /\ items[items[fallback].fallback].media_type \in CONTENT_DOCUMENT_TYPES

FallbackAccepted(manifest_item, items) ==
    LET fallback == manifest_item.fallback IN
    /\ Truthy(fallback)
    /\ fallback \in DOMAIN items
    /\ items[fallback].media_type \in CONTENT_DOCUMENT_TYPES

RECURSIVE itemref_loop(_, _, _, _, _, _, _)
itemref_loop(itemrefs, i, items, toc, seen_idrefs, primary_content, auxiliary_content) ==
    IF i > Len(itemrefs)
    THEN Return([toc |-> toc,
                 primary_content |-> primary_content,
                 auxiliary_content |-> auxiliary_content])
    ELSE LET idref == itemrefs[i].idref
             linear == Linear(itemrefs[i])
             item_data == [idref |-> idref, linear |-> linear]
         IN
         IF ~Truthy(idref)
         THEN Raise("itemref_missing_idref", None, i)
         ELSE IF idref \in seen_idrefs
         THEN Raise("duplicate_idref", idref, i)
         ELSE IF idref \notin DOMAIN items
         THEN Raise("idref_not_in_manifest", idref, i)
         ELSE IF /\ ~IsContentDocument(items[idref].media_type)
                 /\ ~FallbackAccepted(items[idref], items)
         THEN Raise("not_content_document", idref, i)
         ELSE IF linear = "yes"
         THEN itemref_loop(itemrefs, i + 1, items, toc, seen_idrefs \cup {idref},
                           Append(primary_content, item_data), auxiliary_content)
         ELSE itemref_loop(itemrefs, i + 1, items, toc, seen_idrefs \cup {idref},
                           primary_content, Append(auxiliary_content, item_data))

parse_spine(opf, items) ==
    IF ~opf.wellformed
    THEN Raise("spine_parse_error", None, 0)
    ELSE IF opf.root.spine = <<>>
    THEN Raise("missing_spine", None, 0)
    ELSE IF ~Truthy(opf.root.spine[1].toc)
    THEN Raise("missing_toc", None, 0)
    ELSE itemref_loop(opf.root.spine[1].itemrefs, 1, items,
                      opf.root.spine[1].toc, {}, << >>, << >>)

-----------------------------------------------------------------------------
(* parse_guide *)

RECURSIVE reference_loop(_, _, _)
reference_loop(refs, i, references) ==
    IF i > Len(refs)
    THEN Return(references)
    ELSE IF ~Truthy(refs[i].type) \/ ~Truthy(refs[i].href)
    THEN Raise("reference_missing_type_or_href", None, i)
    ELSE reference_loop(refs, i + 1, Append(references, refs[i]))

parse_guide(opf) ==
    IF ~opf.wellformed
    THEN Raise("guide_parse_error", None, 0)
    ELSE IF opf.root.guide = <<>>
    THEN Return(<< >>)
    ELSE reference_loop(opf.root.guide[1], 1, << >>)

-----------------------------------------------------------------------------
(* __main__ and parse_package: the run *)

NoFailure == [stage |-> None, err |-> OK, arg |-> None, at |-> 0]

\* the statement that follows a stage that returned (mutant: the manifest and
\* the lookup are built before the metadata is parsed)
StageAfterManifestFirst(stage) ==
    CASE stage = "verify_mimetype"        -> "parse_container"
      [] stage = "parse_container"        -> "read_package"
      [] stage = "read_package"           -> "parse_package_identity"
      [] stage = "parse_package_identity" -> "parse_manifest"
      [] stage = "parse_manifest"         -> "manifest_items"
      [] stage = "manifest_items"         -> "parse_metadata"
      [] stage = "parse_metadata"         -> "parse_spine"
      [] stage = "parse_spine"            -> "parse_guide"
      [] stage = "parse_guide"            -> "return"
      [] stage = "return"                 -> "done"

StageAfter(stage) ==
    CASE stage = "verify_mimetype"        -> "parse_container"
      [] stage = "parse_container"        -> "read_package"
      [] stage = "read_package"           -> "parse_package_identity"
      [] stage = "parse_package_identity" -> "parse_metadata"
      [] stage = "parse_metadata"         -> "parse_manifest"
      [] stage = "parse_manifest"         -> "manifest_items"
      [] stage = "manifest_items"         -> "parse_spine"
      [] stage = "parse_spine"            -> "parse_guide"
      [] stage = "parse_guide"            -> "return"
      [] stage = "return"                 -> "done"

\* a stage starts; it raises, which ends the run, or returns, and the next starts
Begin(stage) ==
    /\ pc = stage
    /\ started' = Append(started, stage)

Raised(stage, r) ==
    /\ failure' = [stage |-> stage, err |-> r.err, arg |-> r.arg, at |-> r.at]
    /\ pc' = "failed"

Returned(stage) ==
    /\ failure' = failure
    /\ pc' = StageAfter(stage)

\* epub.read(package_content_path).decode('utf-8'); the archive holds one
\* package document, at package.path
read_package(path) ==
    IF path # package.path
    THEN Raise("package_missing", path, 0)
    ELSE IF package.status = "undecodable"
    THEN Raise("package_not_utf8", path, 0)
    ELSE Return(package.opf)

VerifyMimetype ==
    /\ Begin("verify_mimetype")
    /\ LET r == verify_mimetype(archive) IN
       /\ mimetype_checks' = r.evaluated
       /\ IF r.err # OK
          THEN Raised("verify_mimetype", [err |-> r.err, arg |-> None, at |-> 0])
          ELSE Returned("verify_mimetype")
    /\ UNCHANGED <<archive, container, package, warnings, package_content_path,
                   identity, metadata, manifest, manifest_items, spine, guide, ret>>

ParseContainer ==
    /\ Begin("parse_container")
    /\ LET r == parse_container(container) IN
       IF r.err # OK
       THEN Raised("parse_container", r) /\ UNCHANGED package_content_path
       ELSE Returned("parse_container") /\ package_content_path' = r.val
    /\ UNCHANGED <<archive, container, package, warnings, mimetype_checks,
                   identity, metadata, manifest, manifest_items, spine, guide, ret>>

ReadPackage ==
    /\ Begin("read_package")
    /\ LET r == read_package(package_content_path) IN
       IF r.err # OK
       THEN Raised("read_package", r)
       ELSE Returned("read_package")
    /\ UNCHANGED <<archive, container, package, warnings, mimetype_checks,
                   package_content_path, identity, metadata, manifest,
                   manifest_items, spine, guide, ret>>

ParsePackageIdentity ==
    /\ Begin("parse_package_identity")
    /\ LET r == parse_package_identity(package.opf) IN
       IF r.err # OK
       THEN Raised("parse_package_identity", r) /\ UNCHANGED identity
       ELSE Returned("parse_package_identity") /\ identity' = r.val
    /\ UNCHANGED <<archive, container, package, warnings, mimetype_checks,
                   package_content_path, metadata, manifest, manifest_items,
                   spine, guide, ret>>

ParseMetadata ==
    /\ Begin("parse_metadata")
    /\ LET r == parse_metadata(package.opf, identity.unique_identifier) IN
       IF r.err # OK
       THEN Raised("parse_metadata", r) /\ UNCHANGED metadata
       ELSE Returned("parse_metadata") /\ metadata' = r.val
    /\ UNCHANGED <<archive, container, package, warnings, mimetype_checks,
                   package_content_path, identity, manifest, manifest_items,
                   spine, guide, ret>>

ParseManifest ==
    /\ Begin("parse_manifest")
    /\ LET r == parse_manifest(package.opf, MIME_TYPES) IN
       /\ warnings' = warnings \o r.warnings
       /\ IF r.res.err # OK
          THEN Raised("parse_manifest", r.res) /\ UNCHANGED manifest
          ELSE Returned("parse_manifest") /\ manifest' = r.res.val
    /\ UNCHANGED <<archive, container, package, mimetype_checks,
                   package_content_path, identity, metadata, manifest_items,
                   spine, guide, ret>>

BuildManifestItems ==
    /\ Begin("manifest_items")
    /\ manifest_items' = dict_by_id(manifest, 1, << >>)
    /\ Returned("manifest_items")
    /\ UNCHANGED <<archive, container, package, warnings, mimetype_checks,
                   package_content_path, identity, metadata, manifest,
                   spine, guide, ret>>

ParseSpine ==
    /\ Begin("parse_spine")
    /\ LET r == parse_spine(package.opf, manifest_items) IN
       IF r.err # OK
       THEN Raised("parse_spine", r) /\ UNCHANGED spine
       ELSE Returned("parse_spine") /\ spine' = r.val
    /\ UNCHANGED <<archive, container, package, warnings, mimetype_checks,
                   package_content_path, identity, metadata, manifest,
                   manifest_items, guide, ret>>

ParseGuide ==
    /\ Begin("parse_guide")
    /\ LET r == parse_guide(package.opf) IN
       IF r.err # OK
       THEN Raised("parse_guide", r) /\ UNCHANGED guide
       ELSE Returned("parse_guide") /\ guide' = r.val
    /\ UNCHANGED <<archive, container, package, warnings, mimetype_checks,
                   package_content_path, identity, metadata, manifest,
                   manifest_items, spine, ret>>

\* parse_package ends without a return statement: the caller gets None
ParsePackageReturn ==
    /\ Begin("return")
    /\ ret' = [type |-> "NoneType"]
    /\ Returned("return")
    /\ UNCHANGED <<archive, container, package, warnings, mimetype_checks,
                   package_content_path, identity, metadata, manifest,
                   manifest_items, spine, guide>>

Next ==
    \/ VerifyMimetype
    \/ ParseContainer
    \/ ReadPackage
    \/ ParsePackageIdentity
    \/ ParseMetadata
    \/ ParseManifest
    \/ BuildManifestItems
    \/ ParseSpine
    \/ ParseGuide
    \/ ParsePackageReturn

\* the state of a run before its first statement
InitRun ==
    /\ pc = "verify_mimetype"
    /\ started = << >>
    /\ failure = NoFailure
    /\ warnings = << >>
    /\ mimetype_checks = << >>
    /\ package_content_path = None
    /\ identity = [version |-> None, unique_identifier |-> None]
    /\ metadata = [type |-> "unset", text |-> None, title |-> << >>, identifier |-> << >>]
    /\ manifest = << >>
    /\ manifest_items = << >>
    /\ spine = [toc |-> None, primary_content |-> << >>, auxiliary_content |-> << >>]
    /\ guide = << >>
    /\ ret = [type |-> "unset"]

-----------------------------------------------------------------------------
(* The inputs of a run: archives, container documents, package documents *)

MaxRootfiles == 3
MaxIdentifiers == 2
MaxItems == 3
MaxSpineItems == 3
MaxSpineItemrefs == 1
MaxDuplicates == 3
MaxItemrefs == 3
MaxRoundTrip == 2

SeqsUpTo(S, n) == UNION { [1..k -> S] : k \in 0..n }

PackagePath == "OEBPS/content.opf"
OtherPath == "OEBPS/other.opf"
PackageTag == "{http://www.idpf.org/2007/opf}package"
Xhtml == "application/xhtml+xml"
Css == "text/css"
Ttf == "application/x-font-ttf"

Ids == << "chap1", "chap2", "chap3", "chap4", "chap5" >>
Hrefs == << "chap1.xhtml", "chap2.xhtml", "chap3.xhtml", "chap4.xhtml", "chap5.xhtml" >>
IdsUpTo(n) == { Ids[i] : i \in 1..n }

\* -- archives
GoodArchive ==
    [namelist |-> << "mimetype", "META-INF/container.xml", PackagePath >>,
     compress_type |-> 0, extra |-> << >>, flag_bits |-> 0,
     content |-> << 97, 112, 112 >>,
     raw0 |-> "PK", raw30 |-> "mimetype", raw38 |-> "application/epub+zip"]

Archives ==
    [namelist : { << >>, << "mimetype" >>,
                  << "mimetype", "META-INF/container.xml", PackagePath >>,
                  << "META-INF/container.xml", "mimetype", PackagePath >> },
     compress_type : { 0, 8 },
     extra : { << >>, << 202, 254 >> },
     flag_bits : { 0, 1, 2048, 2049 },
     content : { << 97, 112, 112 >>, << 97, 233, 112 >> },
     raw0 : { "PK", "MZ" },
     raw30 : { "mimetype", "META-INF" },
     raw38 : { "application/epub+zip", "application/zip+epub" }]

\* -- container documents
Container(rootfiles) ==
    [status |-> "ok", wellformed |-> TRUE, rootfiles |-> rootfiles]

Rootfiles ==
    [media_type : { PACKAGE_MEDIA_TYPE, "text/plain", None },
     full_path : { None, "", PackagePath, OtherPath }]

GoodContainer ==
    Container(<< << [media_type |-> PACKAGE_MEDIA_TYPE, full_path |-> PackagePath] >> >>)

UnreadableContainers ==
    { [status |-> "missing", wellformed |-> FALSE, rootfiles |-> << >>],
      [status |-> "undecodable", wellformed |-> FALSE, rootfiles |-> << >>],
      [status |-> "ok", wellformed |-> FALSE, rootfiles |-> << >>] }

Containers(n) ==
    UnreadableContainers \cup { Container(<< >>) }
    \cup { Container(<< rfs >>) : rfs \in SeqsUpTo(Rootfiles, n) }

\* -- package documents
Item(id, href, media_type, fallback) ==
    [id |-> id, href |-> href, media_type |-> media_type, fallback |-> fallback]

Itemref(idref, linear) == [idref |-> idref, linear |-> linear]

Identifier(id) == [id |-> id, scheme |-> None, value |-> "urn:isbn:0"]

Metadata(identifiers) == [title |-> << "A Book" >>, identifier |-> identifiers]

Spine(toc, itemrefs) == [toc |-> toc, itemrefs |-> itemrefs]

Reference(type, href) == [type |-> type, href |-> href, title |-> None]

Root(unique_identifier, md, mf, sp, gd) ==
    [tag |-> PackageTag, version |-> "3.0", unique_identifier |-> unique_identifier,
     metadata |-> md, manifest |-> mf, spine |-> sp, guide |-> gd]

Package(root) ==
    [path |-> PackagePath, status |-> "ok", opf |-> [wellformed |-> TRUE, root |-> root]]

GoodMetadata == << Metadata(<< Identifier("BookId") >>) >>
GoodManifest == << << Item("chap1", "chap1.xhtml", Xhtml, None) >> >>
GoodSpine == << Spine("ncx", << Itemref("chap1", None) >>) >>
GoodGuide == << << Reference("cover", "chap1.xhtml") >> >>
GoodRoot == Root("BookId", GoodMetadata, GoodManifest, GoodSpine, GoodGuide)
GoodPackage == Package(GoodRoot)

\* the manifest of n content documents, and the spine that reads them in order
PlainManifest(n) == << [i \in 1..n |-> Item(Ids[i], Hrefs[i], Xhtml, None)] >>
PlainSpine(n) == << Spine("ncx", [i \in 1..n |-> Itemref(Ids[i], None)]) >>

\* manifests whose i-th item has the i-th id and href
ManifestsByPosition(n, MediaTypes, Fallbacks) ==
    UNION { { [i \in 1..k |-> Item(Ids[i], Hrefs[i], f[i][1], f[i][2])] :
                f \in [1..k -> MediaTypes \X Fallbacks] } : k \in 0..n }

\* spines whose i-th itemref names the i-th id
SpinesByPosition(n, Linears) ==
    UNION { { Spine("ncx", [i \in 1..k |-> Itemref(Ids[i], f[i])]) :
                f \in [1..k -> Linears] } : k \in 0..n }

-----------------------------------------------------------------------------
(* Specifications: the same run, over different sets of inputs *)

\* whole runs: a few inputs for every stage, good and bad
PipelineArchives ==
    { GoodArchive,
      [GoodArchive EXCEPT !.compress_type = 8],
      [GoodArchive EXCEPT !.raw38 = "application/zip+epub"] }

PipelineContainers ==
    { GoodContainer,
      Container(<< >>),
      Container(<< << [media_type |-> PACKAGE_MEDIA_TYPE, full_path |-> OtherPath] >> >>),
      [status |-> "missing", wellformed |-> FALSE, rootfiles |-> << >>] }

PipelineRoots ==
    [tag : { PackageTag, "html" },
     version : { "3.0", None },
     unique_identifier : { "BookId", "BookId2", None },
     metadata : { << >>, GoodMetadata },
     manifest : { << >>, GoodManifest,
                  << << Item("chap1", None, Xhtml, None) >> >>,
                  << << Item("chap1", "chap1.xhtml", Xhtml, None),
                        Item("chap2", "chap1.xhtml", Xhtml, None) >> >> },
     spine : { << >>, GoodSpine,
               << Spine(None, << Itemref("chap1", None) >>) >>,
               << Spine("ncx", << Itemref("chap9", None) >>) >> },
     guide : { << >>, GoodGuide, << << Reference(None, "chap1.xhtml") >> >> }]

PipelinePackages ==
    { Package(r) : r \in PipelineRoots }
    \cup { [GoodPackage EXCEPT !.status = "undecodable"],
           [GoodPackage EXCEPT !.opf.wellformed = FALSE] }

Init ==
    /\ archive \in PipelineArchives
    /\ container \in PipelineContainers
    /\ package \in PipelinePackages
    /\ InitRun

Spec == Init /\ [][Next]_vars

\* verify_mimetype over every archive
InitArchive ==
    /\ archive \in Archives
    /\ container = GoodContainer
    /\ package = GoodPackage
    /\ InitRun

SpecArchive == InitArchive /\ [][Next]_vars

\* parse_container over every container document
InitContainer ==
    /\ archive = GoodArchive
    /\ container \in Containers(MaxRootfiles)
    /\ package = GoodPackage
    /\ InitRun

SpecContainer == InitContainer /\ [][Next]_vars

\* parse_metadata over the identifiers a metadata element can declare
InitMetadata ==
    /\ archive = GoodArchive
    /\ container = GoodContainer
    /\ package \in
         { Package(Root(uid, md, GoodManifest, GoodSpine, GoodGuide)) :
             uid \in { "BookId", "BookId2" },
             md \in { << >> } \cup
                    { << Metadata(ids) >> :
                        ids \in SeqsUpTo({ Identifier(i) : i \in { None, "", "BookId", "BookId2" } },
                                         MaxIdentifiers) } }
    /\ InitRun

SpecMetadata == InitMetadata /\ [][Next]_vars

\* parse_manifest over items that repeat ids and hrefs and lack attributes
ManifestItems ==
    { Item(id, href, Xhtml, None) : id \in { "chap1", "chap2" },
                                    href \in { "chap1.xhtml", "chap2.xhtml" } }
    \cup { Item(None, "chap1.xhtml", Xhtml, None),
           Item("chap1", "", Xhtml, None),
           Item("chap1", "chap1.xhtml", None, None) }

InitManifest ==
    /\ archive = GoodArchive
    /\ container = GoodContainer
    /\ package \in
         { Package(Root("BookId", GoodMetadata, << mf >>, << Spine("ncx", << >>) >>, GoodGuide)) :
             mf \in SeqsUpTo(ManifestItems, MaxItems) }
    /\ InitRun

SpecManifest == InitManifest /\ [][Next]_vars

\* parse_spine over manifests whose items fall back on the next item (for the
\* last item a name the manifest does not hold), on the first item or on none
FallbackOf(i, choice) ==
    CASE choice = "none"  -> None
      [] choice = "next"  -> Ids[i + 1]
      [] choice = "first" -> Ids[1]

ChainManifests(n) ==
    UNION { { [i \in 1..k |-> Item(Ids[i], Hrefs[i], f[i][1], FallbackOf(i, f[i][2]))] :
                f \in [1..k -> { Xhtml, Css } \X { "none", "next", "first" }] } :
            k \in 0..n }

InitSpine ==
    /\ archive = GoodArchive
    /\ container = GoodContainer
    /\ package \in
         { Package(Root("BookId", GoodMetadata, << mf >>, << Spine("ncx", irs) >>, << >>)) :
             mf \in ChainManifests(MaxSpineItems),
             irs \in SeqsUpTo({ Itemref(id, None) : id \in IdsUpTo(MaxSpineItems) },
                             MaxSpineItemrefs) }
    /\ InitRun

SpecSpine == InitSpine /\ [][Next]_vars

\* the id lookup over manifests that repeat ids (hrefs distinct)
DuplicateManifests(n) ==
    UNION { { [i \in 1..k |-> Item(f[i][1], Hrefs[i], f[i][2], f[i][3])] :
                f \in [1..k -> { "chap1", "chap2" } \X { Xhtml, Css }
                                \X { None, "chap1", "chap2" }] } :
            k \in 0..n }

InitLookup ==
    /\ archive = GoodArchive
    /\ container = GoodContainer
    /\ package \in
         { Package(Root("BookId", GoodMetadata, << mf >>,
                        << Spine("ncx", << Itemref("chap1", None) >>) >>, << >>)) :
             mf \in DuplicateManifests(MaxDuplicates) }
    /\ InitRun

SpecLookup == InitLookup /\ [][Next]_vars

\* parse_spine over the linear attributes of the itemrefs
InitLinear ==
    /\ archive = GoodArchive
    /\ container = GoodContainer
    /\ package \in
         { Package(Root("BookId", GoodMetadata, PlainManifest(MaxItemrefs), << sp >>, << >>)) :
             sp \in SpinesByPosition(MaxItemrefs, { None, "yes", "no", "true" }) }
    /\ InitRun

SpecLinear == InitLinear /\ [][Next]_vars

\* whole runs over package documents with every mandatory element
RoundTripGuides ==
    { << >>, GoodGuide,
      << << Reference("cover", "chap1.xhtml"), Reference("toc", "chap2.xhtml") >> >>,
      << << Reference("cover", None) >> >> }

InitRoundTrip ==
    /\ archive = GoodArchive
    /\ container = GoodContainer
    /\ package \in
         { Package(Root(uid, GoodMetadata, << mf >>, << sp >>, gd)) :
             uid \in { "BookId", "BookId2" },
             mf \in ManifestsByPosition(MaxRoundTrip, { Xhtml, Css, Ttf }, { None, "chap1" }),
             sp \in SpinesByPosition(MaxRoundTrip, { None, "no" })
                    \cup { Spine(None, << >>) },
             gd \in RoundTripGuides }
    /\ InitRun

SpecRoundTrip == InitRoundTrip /\ [][Next]_vars

-----------------------------------------------------------------------------
(* Properties *)

\* a stage has run: it raised or it returned
Reached(stage) == \E i \in 1..Len(started) : started[i] = stage
FailedAt(stage) == failure.err # OK /\ failure.stage = stage
Passed(stage) == Reached(stage) /\ ~FailedAt(stage)

TheRoot == package.opf.root

\* the order of the stages of a run, as documented
PipelineOrder ==
    << "verify_mimetype", "parse_container", "read_package",
       "parse_package_identity", "parse_metadata", "parse_manifest",
       "manifest_items", "parse_spine", "parse_guide", "return" >>

PositionOf(stage) == CHOOSE i \in 1..Len(PipelineOrder) : PipelineOrder[i] = stage

\* the input of a stage violates one of its rules (asked only of a stage whose
\* predecessors all accept their input)
Violates(stage) ==
    CASE stage = "verify_mimetype" -> verify_mimetype(archive).err # OK
      [] stage = "parse_container" -> parse_container(container).err # OK
      [] stage = "read_package" ->
            read_package(parse_container(container).val).err # OK
      [] stage = "parse_package_identity" ->
            parse_package_identity(package.opf).err # OK
      [] stage = "parse_metadata" ->
            parse_metadata(package.opf, TheRoot.unique_identifier).err # OK
      [] stage = "parse_manifest" ->
            parse_manifest(package.opf, MIME_TYPES).res.err # OK
      [] stage = "parse_spine" ->
            parse_spine(package.opf,
                        dict_by_id(parse_manifest(package.opf, MIME_TYPES).res.val,
                                   1, << >>)).err # OK
      [] stage = "parse_guide" -> parse_guide(package.opf).err # OK
      [] OTHER -> FALSE

\* the metadata element declares identifiers and none has the key as its id
KeyUndeclared ==
    /\ TheRoot.metadata # << >>
    /\ \A i \in 1..Len(TheRoot.metadata[1].identifier) :
          TheRoot.metadata[1].identifier[i].id # TheRoot.unique_identifier

\* C1: the stages start in pipeline order; the failure reported is that of the
\* earliest stage whose input violates a rule, and it is the last stage started;
\* a run that ends without failure met no violation; a unique-identifier key
\* that none of the declared identifiers carries fails the metadata stage, and
\* the manifest and the spine are never parsed.
C1_FirstViolationReported ==
    /\ Len(started) <= Len(PipelineOrder)
    /\ started = SubSeq(PipelineOrder, 1, Len(started))
    /\ (pc = "failed") = (failure.err # OK)
    /\ failure.err # OK =>
          /\ started[Len(started)] = failure.stage
          /\ Violates(failure.stage)
          /\ \A k \in 1..(PositionOf(failure.stage) - 1) : ~Violates(PipelineOrder[k])
    /\ pc = "done" => \A k \in 1..Len(PipelineOrder) : ~Violates(PipelineOrder[k])
    /\ (Reached("parse_metadata") /\ KeyUndeclared) =>
          /\ FailedAt("parse_metadata")
          /\ failure.err = "unique_identifier_no_match"
          /\ ~Reached("parse_manifest")
          /\ ~Reached("parse_spine")

\* C1 witness: the key is undeclared and the manifest is broken as well; the
\* metadata stage is the one that failed
C1_Witness ==
    /\ FailedAt("parse_metadata")
    /\ KeyUndeclared
    /\ parse_manifest(package.opf, MIME_TYPES).res.err # OK

\* the six checks of the identification entry, as documented
MimetypeCheck(n) ==
    CASE n = 1 -> Len(archive.namelist) > 0 /\ Head(archive.namelist) = "mimetype"
      [] n = 2 -> archive.compress_type = 0
      [] n = 3 -> Len(archive.extra) = 0
      [] n = 4 -> archive.flag_bits \in { 2 * k : k \in 0..2047 }
      [] n = 5 -> \A i \in 1..Len(archive.content) : archive.content[i] \in 0..127
      [] n = 6 -> /\ archive.raw0 = "PK"
                  /\ archive.raw30 = "mimetype"
                  /\ archive.raw38 = "application/epub+zip"

MimetypeErrors(n) ==
    CASE n = 1 -> { "mimetype_not_first" }
      [] n = 2 -> { "mimetype_compressed" }
      [] n = 3 -> { "mimetype_extra_fields" }
      [] n = 4 -> { "mimetype_encrypted" }
      [] n = 5 -> { "mimetype_not_ascii" }
      [] n = 6 -> { "bad_magic_number", "mimetype_name_misplaced",
                    "mimetype_content_misplaced" }

ViolatedChecks == { n \in 1..6 : ~MimetypeCheck(n) }
LowestViolated == CHOOSE n \in ViolatedChecks : \A m \in ViolatedChecks : n <= m

\* C2: verify_mimetype succeeds iff the six checks hold; otherwise it reports
\* the lowest-numbered violated check and evaluated no check after that one.
C2_LowestViolatedCheckWins ==
    Reached("verify_mimetype") =>
        /\ Passed("verify_mimetype") <=> ViolatedChecks = {}
        /\ FailedAt("verify_mimetype") =>
              /\ failure.err \in MimetypeErrors(LowestViolated)
              /\ mimetype_checks = [i \in 1..LowestViolated |-> i]

\* C2 witness: checks 2, 4 and 6 are violated at once and check 2 is reported
C2_Witness ==
    /\ FailedAt("verify_mimetype")
    /\ ViolatedChecks = { 2, 4, 6 }
    /\ failure.err = "mimetype_compressed"
    /\ mimetype_checks = << 1, 2 >>

\* C3: when every stage succeeds parse_package returns the populated
\* PackageDocument; when a stage fails nothing is returned.
C3_ReturnsPackageDocument ==
    /\ pc = "done" =>
          /\ ret.type = "PackageDocument"
          /\ ret = [type |-> "PackageDocument", identity |-> identity,
                    metadata |-> metadata, manifest |-> manifest,
                    spine |-> spine, guide |-> guide]
    /\ pc = "failed" => ret.type = "unset"

\* the identifiers the metadata element declares; the key the identity stage returned
DeclaredIdentifiers == TheRoot.metadata[1].identifier
KeyDeclared ==
    \E i \in 1..Len(DeclaredIdentifiers) :
        DeclaredIdentifiers[i].id = identity.unique_identifier

\* C4: without a metadata element parse_metadata returns a value that is not a
\* metadata record, does not fail, and the manifest stage follows; with one it
\* fails (reference not found) exactly when no dc:identifier has the key as
\* its id, and otherwise returns the record.
C4_MetadataKeyCheck ==
    Reached("parse_metadata") =>
        IF TheRoot.metadata = << >>
        THEN /\ Passed("parse_metadata")
             /\ metadata.type = "str"
             /\ pc = "parse_manifest" \/ Reached("parse_manifest")
        ELSE /\ FailedAt("parse_metadata") <=> ~KeyDeclared
             /\ FailedAt("parse_metadata") => failure.err = "unique_identifier_no_match"
             /\ Passed("parse_metadata") =>
                   /\ metadata.type = "dict"
                   /\ metadata.identifier = DeclaredIdentifiers
                   /\ metadata.title = TheRoot.metadata[1].title

\* C4 witness: two identifiers, the second one carries the key, the record is
\* returned
C4_Witness ==
    /\ Passed("parse_metadata")
    /\ TheRoot.metadata # << >>
    /\ Len(DeclaredIdentifiers) = 2
    /\ DeclaredIdentifiers[1].id # identity.unique_identifier
    /\ DeclaredIdentifiers[2].id = identity.unique_identifier

\* the item and itemref elements of the package document
TheItems == TheRoot.manifest[1]
TheItemrefs == TheRoot.spine[1].itemrefs
TheReferences == IF TheRoot.guide = << >> THEN << >> ELSE TheRoot.guide[1]

\* what an id names: the last item element, in document order, that carries it
Declared(id) == \E j \in 1..Len(TheItems) : TheItems[j].id = id
LastWithId(id) ==
    TheItems[CHOOSE j \in 1..Len(TheItems) :
                /\ TheItems[j].id = id
                /\ \A k \in (j + 1)..Len(TheItems) : TheItems[k].id # id]

DirectEligible(id) == LastWithId(id).media_type \in CONTENT_DOCUMENT_TYPES
OneHopEligible(id) ==
    /\ Declared(LastWithId(id).fallback)
    /\ LastWithId(LastWithId(id).fallback).media_type \in CONTENT_DOCUMENT_TYPES

\* parse_spine rejected the i-th itemref
Rejected(i) == FailedAt("parse_spine") /\ failure.at = i

\* the i-th itemref comes to the content-document check: no itemref before it
\* was rejected, its idref is in the lookup and does not repeat an earlier one
ComesToContentCheck(i) ==
    /\ FailedAt("parse_spine") => i <= failure.at
    /\ Declared(TheItemrefs[i].idref)
    /\ \A j \in 1..(i - 1) : TheItemrefs[j].idref # TheItemrefs[i].idref

\* C5: an itemref that comes to the content-document check and whose item is no
\* content document is accepted exactly when the item's fallback names a
\* manifest item that is a content document itself; the fallback of the
\* fallback is not looked at.
C5_OneHopFallback ==
    (Reached("parse_spine") /\ TheRoot.spine # << >>) =>
        \A i \in 1..Len(TheItemrefs) :
            (ComesToContentCheck(i) /\ ~DirectEligible(TheItemrefs[i].idref)) =>
                /\ Rejected(i) <=> ~OneHopEligible(TheItemrefs[i].idref)
                /\ Rejected(i) => failure.err = "not_content_document"

\* C5 witness: the item is a style sheet, its fallback is a style sheet whose
\* own fallback is a content document: the itemref is rejected
C5_Witness ==
    /\ Reached("parse_spine")
    /\ Rejected(1)
    /\ failure.err = "not_content_document"
    /\ LET a == LastWithId(TheItemrefs[1].idref) IN
       /\ a.media_type = Css
       /\ Declared(a.fallback)
       /\ LastWithId(a.fallback).media_type = Css
       /\ Declared(LastWithId(a.fallback).fallback)
       /\ LastWithId(LastWithId(a.fallback).fallback).media_type = Xhtml

\* an item carries the three mandatory attributes
HasAll(item) ==
    /\ item.id \notin { None, "" }
    /\ item.href \notin { None, "" }
    /\ item.media_type \notin { None, "" }

\* items i < j, both with the three attributes, share an href
ShareHref(i, j) ==
    /\ i < j
    /\ HasAll(TheItems[i]) /\ HasAll(TheItems[j])
    /\ TheItems[i].href = TheItems[j].href

\* C6: two items that share an href make parse_manifest fail, with the
\* duplicate-key error when the loop comes to the second of them (no item before
\* it lacks an attribute); items that share an id and have distinct hrefs do
\* not: a manifest whose items all carry the three attributes and pairwise
\* distinct hrefs is returned whole, in document order.
C6_DuplicateHref ==
    Reached("parse_manifest") =>
        /\ \A i, j \in 1..Len(TheItems) :
              ShareHref(i, j) =>
                  /\ FailedAt("parse_manifest")
                  /\ (\A k \in 1..(j - 1) : HasAll(TheItems[k])) =>
                        failure.err = "duplicate_href"
        /\ ( /\ \A k \in 1..Len(TheItems) : HasAll(TheItems[k])
             /\ \A i, j \in 1..Len(TheItems) : i < j => TheItems[i].href # TheItems[j].href )
           => /\ Passed("parse_manifest")
              /\ manifest = TheItems

\* C6 witness: the second item repeats the id of the first with another href,
\* the third repeats the href of the first: the duplicate href is reported
C6_Witness ==
    /\ FailedAt("parse_manifest")
    /\ failure.err = "duplicate_href"
    /\ failure.at = 3
    /\ TheItems[1].id = TheItems[2].id
    /\ TheItems[1].href # TheItems[2].href
    /\ TheItems[3].href = TheItems[1].href

\* the rootfile children of the container document
TheRootfiles == container.rootfiles[1]
ContainerReadable == container.status = "ok" /\ container.wellformed
MatchesType(i) == TheRootfiles[i].media_type = "application/oebps-package+xml"
MatchesTypeWithPath(i) == MatchesType(i) /\ TheRootfiles[i].full_path \notin { None, "" }

\* C7 as stated: parse_container returns the full-path of the first rootfile
\* whose media-type is the package media type, and fails (reference not found)
\* when there is none or no rootfiles element.
C7_FirstMatchingMediaType ==
    (Reached("parse_container") /\ ContainerReadable) =>
        IF container.rootfiles = << >> \/ ~\E i \in 1..Len(TheRootfiles) : MatchesType(i)
        THEN /\ FailedAt("parse_container")
             /\ failure.err \in { "no_rootfiles", "no_package_rootfile" }
        ELSE /\ Passed("parse_container")
             /\ package_content_path =
                  TheRootfiles[CHOOSE i \in 1..Len(TheRootfiles) :
                                  MatchesType(i) /\ \A j \in 1..(i - 1) : ~MatchesType(j)].full_path

\* C7 amended: parse_container returns the full-path of the first rootfile
\* whose media-type is the package media type and whose full-path is present
\* and not empty, and fails (reference not found) when there is none or no
\* rootfiles element.
C7_FirstMatchingWithPath ==
    (Reached("parse_container") /\ ContainerReadable) =>
        IF container.rootfiles = << >> \/ ~\E i \in 1..Len(TheRootfiles) : MatchesTypeWithPath(i)
        THEN /\ FailedAt("parse_container")
             /\ failure.err \in { "no_rootfiles", "no_package_rootfile" }
        ELSE /\ Passed("parse_container")
             /\ package_content_path =
                  TheRootfiles[CHOOSE i \in 1..Len(TheRootfiles) :
                                  /\ MatchesTypeWithPath(i)
                                  /\ \A j \in 1..(i - 1) : ~MatchesTypeWithPath(j)].full_path

\* C7 witness: the first rootfile has the package media type and no full-path,
\* a later one has both: the later one is returned
C7_Witness ==
    /\ Passed("parse_container")
    /\ container.rootfiles # << >>
    /\ Len(TheRootfiles) >= 2
    /\ MatchesType(1) /\ ~MatchesTypeWithPath(1)
    /\ MatchesTypeWithPath(2)
    /\ package_content_path = TheRootfiles[2].full_path

\* the preconditions of the round trip
UniqueKeys ==
    /\ \A i, j \in 1..Len(TheItems) :
          i # j => TheItems[i].id # TheItems[j].id /\ TheItems[i].href # TheItems[j].href
    /\ \A i, j \in 1..Len(TheItemrefs) : i # j => TheItemrefs[i].idref # TheItemrefs[j].idref
IdrefsResolve == \A i \in 1..Len(TheItemrefs) : Declared(TheItemrefs[i].idref)
KeyMatches ==
    /\ TheRoot.metadata # << >>
    /\ \E i \in 1..Len(DeclaredIdentifiers) :
          DeclaredIdentifiers[i].id = TheRoot.unique_identifier

\* every mandatory element and attribute of the package document is there
Complete ==
    /\ package.status = "ok" /\ package.opf.wellformed
    /\ TheRoot.tag = PackageTag
    /\ TheRoot.version \notin { None, "" }
    /\ TheRoot.unique_identifier \notin { None, "" }
    /\ TheRoot.manifest # << >> /\ TheRoot.spine # << >>
    /\ TheRoot.spine[1].toc \notin { None, "" }
    /\ \A i \in 1..Len(TheItems) : HasAll(TheItems[i])
    /\ \A i \in 1..Len(TheItemrefs) : TheItemrefs[i].idref \notin { None, "" }
    /\ \A i \in 1..Len(TheReferences) :
          /\ TheReferences[i].type \notin { None, "" }
          /\ TheReferences[i].href \notin { None, "" }

\* the run succeeded, warned of nothing, and kept every element
CleanRoundTrip ==
    /\ pc = "done"
    /\ warnings = << >>
    /\ Len(manifest) = Len(TheItems)
    /\ Len(spine.primary_content) + Len(spine.auxiliary_content) = Len(TheItemrefs)
    /\ Len(guide) = Len(TheReferences)

\* C8 as stated: a complete package document whose ids, hrefs and idrefs are
\* unique, whose idrefs resolve and whose key is declared parses without
\* warnings and with the counts of its elements.
C8_RoundTrip ==
    (pc \in { "done", "failed" } /\ Complete /\ UniqueKeys /\ IdrefsResolve /\ KeyMatches)
        => CleanRoundTrip

\* C8 amended: so it does when, besides, every media-type of the manifest is a
\* recognized one and every item the spine names is a content document or
\* falls back, in one hop, on one.
C8_RoundTripRecognized ==
    ( /\ pc \in { "done", "failed" }
      /\ Complete /\ UniqueKeys /\ IdrefsResolve /\ KeyMatches
      /\ \A i \in 1..Len(TheItems) :
            TheItems[i].media_type \in
                { "image/gif", "image/jpeg", "image/png", "image/svg+xml",
                  "application/xhtml+xml", "application/x-dtbook+xml", "text/css",
                  "application/xml", "application/x-dtbncx+xml",
                  "application/vnd.ms-opentype" }
      /\ \A i \in 1..Len(TheItemrefs) :
            DirectEligible(TheItemrefs[i].idref) \/ OneHopEligible(TheItemrefs[i].idref) )
        => CleanRoundTrip

\* C8 witness: two items, a content document and a style sheet that falls back
\* on it, both in the spine, two guide references: no warning, every count kept
C8_Witness ==
    /\ pc = "done"
    /\ Complete /\ UniqueKeys /\ IdrefsResolve /\ KeyMatches
    /\ warnings = << >>
    /\ Len(manifest) = 2 /\ Len(TheItems) = 2
    /\ TheItems[2].media_type = Css
    /\ Len(spine.primary_content) + Len(spine.auxiliary_content) = 2
    /\ Len(guide) = 2

\* the itemrefs of one class, in document order, as parse_spine records them
IsPrimary(itemref) == itemref.linear \in { None, "yes" }
IsAuxiliary(itemref) == ~IsPrimary(itemref)
Recorded(itemrefs, linear_of_absent) ==
    [i \in 1..Len(itemrefs) |->
        [idref |-> itemrefs[i].idref,
         linear |-> IF itemrefs[i].linear = None THEN linear_of_absent
                    ELSE itemrefs[i].linear]]

\* C9: when parse_spine succeeds the primary sequence holds the itemrefs with
\* linear absent or "yes", recorded with linear "yes", the auxiliary sequence
\* holds all the others, both in document order, and every itemref is in
\* exactly one of the two.
C9_LinearClassification ==
    (Passed("parse_spine") /\ TheRoot.spine # << >>) =>
        /\ spine.primary_content = Recorded(SelectSeq(TheItemrefs, IsPrimary), "yes")
        /\ spine.auxiliary_content = Recorded(SelectSeq(TheItemrefs, IsAuxiliary), "yes")
        /\ \A i \in 1..Len(TheItemrefs) :
              IsAuxiliary(TheItemrefs[i]) <=>
                  \E k \in 1..Len(spine.auxiliary_content) :
                      spine.auxiliary_content[k] = TheItemrefs[i]
        /\ \A i \in 1..Len(spine.primary_content) : spine.primary_content[i].linear = "yes"
        /\ \A i \in 1..Len(spine.auxiliary_content) : spine.auxiliary_content[i].linear # "yes"
        /\ Len(spine.primary_content) + Len(spine.auxiliary_content) = Len(TheItemrefs)

\* C9 witness: linear absent, then "no", then "yes": the first and the third
\* are primary, in that order, the second is auxiliary
C9_Witness ==
    /\ Passed("parse_spine")
    /\ Len(TheItemrefs) = 3
    /\ TheItemrefs[1].linear = None
    /\ TheItemrefs[2].linear = "no"
    /\ TheItemrefs[3].linear = "yes"
    /\ spine.primary_content = << [idref |-> TheItemrefs[1].idref, linear |-> "yes"],
                                  [idref |-> TheItemrefs[3].idref, linear |-> "yes"] >>
    /\ spine.auxiliary_content = << [idref |-> TheItemrefs[2].idref, linear |-> "no"] >>

\* C10: the lookup maps every id to the last item that carries it, and the
\* spine accepts an itemref by that item alone: the idref must be declared, and
\* the last item that carries it must be a content document or fall back, in
\* one hop, on an id whose last item is one.
C10_LastDuplicateDecides ==
    /\ Passed("manifest_items") =>
          /\ DOMAIN manifest_items = { TheItems[j].id : j \in 1..Len(TheItems) }
          /\ \A id \in DOMAIN manifest_items : manifest_items[id] = LastWithId(id)
    /\ (Reached("parse_spine") /\ Len(TheItemrefs) = 1) =>
          LET idref == TheItemrefs[1].idref IN
          IF ~Declared(idref)
          THEN FailedAt("parse_spine") /\ failure.err = "idref_not_in_manifest"
          ELSE /\ Passed("parse_spine") <=> (DirectEligible(idref) \/ OneHopEligible(idref))
               /\ FailedAt("parse_spine") => failure.err = "not_content_document"

\* C10 witness: the id of the itemref is carried by a content document and,
\* later, by a style sheet without fallback: the itemref is rejected
C10_Witness ==
    /\ FailedAt("parse_spine")
    /\ failure.err = "not_content_document"
    /\ Len(TheItems) >= 2
    /\ TheItems[1].id = TheItemrefs[1].idref
    /\ TheItems[1].media_type = Xhtml
    /\ TheItems[2].id = TheItemrefs[1].idref
    /\ TheItems[2].media_type = Css
    /\ TheItems[2].fallback = None
    /\ LastWithId(TheItemrefs[1].idref) = TheItems[2]

====
